---- MODULE Spec2Model ----
(***************************************************************************)
(* Model of the playlist compatibility engine:                             *)
(*   backend/core/playlist_gatekeeper.py  (PlaylistGatekeeper)             *)
(*   backend/core/comparator.py           (Comparator)                     *)
(*                                                                         *)
(* Numbers.  Feature values are small integers.  A standard deviation is   *)
(* sqrt(V)/n with V = n*sum(x^2) - sum(x)^2, so every quantity the code    *)
(* derives from it is kept exactly as  num / sqrt(rad)  (a record          *)
(* [num, rad]); comparisons square both sides.  Weights are kept in        *)
(* halves (3.0 is 6).  Floating-point rounding is not modelled.            *)
(*                                                                         *)
(* Library calls made by the gatekeeper, as the code relies on them:       *)
(*  - np.array of a row holding None is an object array; converted to      *)
(*    float the None becomes NaN.  StandardScaler accepts and ignores NaN, *)
(*    NearestNeighbors.fit and kneighbors reject it (ValueError).          *)
(*  - a row holding a non-numeric string makes fit_transform / transform   *)
(*    raise ValueError; np.std raises TypeError on string or None entries. *)
(*  - transform / kneighbors on an object that was never fitted raise      *)
(*    NotFittedError.                                                      *)
(*  - kneighbors fixes no order among neighbours at the same distance; the *)
(*    order depends on the search structure and on rounding.  It is the    *)
(*    same for every call of one run (variable tiebreak).                  *)
(***************************************************************************)
EXTENDS Integers, Sequences, FiniteSets, TLC

\* ------------------------------------------------------------------ bounds
MaxRefs == 2

\* ------------------------------------------------------------- arithmetic
Abs(x) == IF x < 0 THEN -x ELSE x

Max(a, b) == IF a >= b THEN a ELSE b

Min(a, b) == IF a <= b THEN a ELSE b

RECURSIVE GCD(_, _)
GCD(a, b) == IF b = 0 THEN a ELSE GCD(b, a % b)

LCM(a, b) == (a * b) \div GCD(a, b)

RECURSIVE SumSeq(_)
SumSeq(s) == IF s = <<>> THEN 0 ELSE Head(s) + SumSeq(Tail(s))

RECURSIVE LCMSeq(_)
LCMSeq(s) == IF s = <<>> THEN 1 ELSE LCM(Head(s), LCMSeq(Tail(s)))

\* num / sqrt(rad), rad > 0; zero is always [0, 1]
Root(num, rad) == IF num = 0 THEN [num |-> 0, rad |-> 1] ELSE [num |-> num, rad |-> rad]

\* |num/sqrt(rad)| > p/q   (p, q > 0)
RootAbsGt(r, p, q) == r.num * r.num * q * q > p * p * r.rad

\* ------------------------------------------------------- Golden-8 schema
golden_8_order ==
    << "bpm", "beat_strength", "onset_rate", "energy",
       "danceability", "spectral_rolloff", "spectral_flatness", "dynamic_range" >>

Golden8 == {golden_8_order[i] : i \in 1..8}

\* weights in halves: 3.0 -> 6, 2.0 -> 4, 1.5 -> 3, 1.0 -> 2, 0.5 -> 1
FEATURE_WEIGHTS ==
    [beat_strength |-> 6, onset_rate |-> 4, bpm |-> 3, energy |-> 3,
     danceability |-> 4, spectral_rolloff |-> 2, spectral_flatness |-> 2,
     dynamic_range |-> 1]

CRITICAL_THRESHOLD == 2

\* the literal 1.5 of the warning test, in halves
WarningThresholdHalves == 3

\* ------------------------------------------------------------------ values
\* A dict value: a number, a (non-numeric) string, None, or no entry at all.
Num(v) == [t |-> "num", v |-> v]

StrVal == [t |-> "str", v |-> 0]

NullVal == [t |-> "null", v |-> 0]

Absent == [t |-> "absent", v |-> 0]

MkTrack(tup) ==
    [bpm |-> Num(tup[1]), beat_strength |-> Num(tup[2]), onset_rate |-> Num(tup[3]),
     energy |-> Num(tup[4]), danceability |-> Num(tup[5]), spectral_rolloff |-> Num(tup[6]),
     spectral_flatness |-> Num(tup[7]), dynamic_range |-> Num(tup[8])]

Damage(track, f, bad) == [track EXCEPT ![f] = bad]

\* order:       bpm bs on en da ro fl dr
TrackA == MkTrack(<<0, 0, 0, 0, 0, 0, 0, 0>>)

\* spectral_flatness is the same in both: its std is 0 in every reference list
TrackB == MkTrack(<<4, 6, 8, 2, 2, 2, 0, 2>>)

GoodTracks == {TrackA, TrackB}

BadValues == {StrVal, NullVal, Absent}

BadTracks == {Damage(TrackB, "energy", b) : b \in BadValues}

RECURSIVE SeqsOfLen(_, _)
SeqsOfLen(S, n) ==
    IF n = 0 THEN {<<>>}
    ELSE {Append(s, x) : s \in SeqsOfLen(S, n - 1), x \in S}

GoodLists == UNION {SeqsOfLen(GoodTracks, n) : n \in 2..MaxRefs}

\* reference lists in which one vector is malformed
BadLists == {<<TrackA, b>> : b \in BadTracks}

ShortLists == {<<>>} \cup {<<g>> : g \in GoodTracks}

\* the argument of fit_playlist: None or a list
FitArgs == {[none |-> TRUE, list |-> <<>>]}
           \cup {[none |-> FALSE, list |-> l] : l \in ShortLists \cup GoodLists \cup BadLists}

Candidates ==
    { MkTrack(<<4, 8, 8, 2, 2, 2, 2, 2>>),      \* beat_strength weighted_z = 2.0 vs B in <<A,B>>
      MkTrack(<<1, 9, 8, 2, 2, 2, 2, 2>>),      \* beat_strength weighted_z = 3.0, bpm -2.25
      MkTrack(<<4, 6, 12, 2, 2, 2, 2, 2>>),     \* onset_rate weighted_z = 2.0
      MkTrack(<<9, 8, 13, 2, 2, 2, 2, 2>>),     \* beat_strength 2.0, onset_rate 2.5, bpm 3.75
      MkTrack(<<6, 6, 8, 2, 2, 2, 2, 2>>),      \* bpm weighted_z = 1.5
      MkTrack(<<9, 6, 8, 2, 2, 2, 2, 5>>),      \* bpm 3.75, dynamic_range 1.5
      MkTrack(<<2, 3, 4, 1, 1, 1, 1, 1>>),      \* equidistant from A and B
      MkTrack(<<0, 1, 5, 0, 0, 0, 0, 0>>) }


BadCandidates == {Damage(TrackB, "bpm", b) : b \in BadValues}

\* ---------------------------------------------------------- gatekeeper state
VARIABLES scaler, nn_model, playlist_features, tiebreak,
          op, fit_arg, fit_ret, check_arg, check_ret,
          fit_pc, fitted_refs

\* history kept by SpecHistory: a fit_playlist call has failed since the last
\* successful one
VARIABLE failed_fit

\* comparator: the profile it was built with, the track being compared, the
\* list compare_track returned; the argument and the result of a direct call
\* of compare_feature, compare_key or get_score_status
VARIABLES target_profile, track_features, recommendations, cmp_pc, cmp_arg, cmp_ret

cmp_vars == <<target_profile, track_features, recommendations, cmp_pc, cmp_arg, cmp_ret>>

\* playlist comparator: the tracks it was constructed with and the profile
\* _create_profile built from them (self.profile)
VARIABLES playlist_tracks, pl_profile, pl_pc

pl_vars == <<playlist_tracks, pl_profile, pl_pc>>

gk_vars == <<scaler, nn_model, playlist_features>>

NoneObj == [kind |-> "None", cnt |-> <<>>, sum |-> <<>>, V |-> <<>>, nan |-> FALSE, X |-> <<>>]

\* StandardScaler() / NearestNeighbors(...) freshly constructed, not yet fitted
UnfittedObj == [NoneObj EXCEPT !.kind = "unfitted"]

NoneList == [none |-> TRUE, list |-> <<>>]

NoResult == [kind |-> "none"]

NotFittedError == [kind |-> "error", error |-> "Playlist not fitted"]

FailedError == [kind |-> "error", error |-> "Failed to analyze track"]

\* ------------------------------------------------------------ conversions
\* features[key] for key in golden_8_order: KeyError when a key is absent
\* (PlaylistGatekeeper._feature_dict_to_array)
feature_dict_to_array(features) ==
    IF \E f \in Golden8 : features[f].t = "absent"
    THEN [ok |-> FALSE, arr |-> <<>>]
    ELSE [ok |-> TRUE, arr |-> [i \in 1..8 |-> features[golden_8_order[i]]]]

\* (PlaylistGatekeeper._features_to_matrix)
features_to_matrix(features_list) ==
    IF \E k \in 1..Len(features_list) : ~feature_dict_to_array(features_list[k]).ok
    THEN [ok |-> FALSE, rows |-> <<>>]
    ELSE [ok |-> TRUE,
          rows |-> [k \in 1..Len(features_list) |-> feature_dict_to_array(features_list[k]).arr]]

HasTag(arr, tag) == \E i \in 1..Len(arr) : arr[i].t = tag

MatrixHasTag(rows, tag) == \E k \in 1..Len(rows) : HasTag(rows[k], tag)

\* numeric content of a column; None becomes NaN and is left out of the statistics
Column(rows, i) == [k \in 1..Len(rows) |-> IF rows[k][i].t = "num" THEN rows[k][i].v ELSE 0]

ColumnCount(rows, i) == Cardinality({k \in 1..Len(rows) : rows[k][i].t = "num"})

ColumnSquares(rows, i) == [k \in 1..Len(rows) |-> Column(rows, i)[k] * Column(rows, i)[k]]

\* n^2 * population variance of column i  =  n*sum(x^2) - sum(x)^2
ColumnV(rows, i) ==
    ColumnCount(rows, i) * SumSeq(ColumnSquares(rows, i))
        - SumSeq(Column(rows, i)) * SumSeq(Column(rows, i))

\* StandardScaler.fit: mean_ = sum/cnt, scale_ = sqrt(V)/cnt (1 where V = 0).
\* NaN entries are accepted and ignored; a non-numeric string is rejected.
ScalerStats(rows) ==
    [kind |-> "fitted",
     cnt |-> [i \in 1..8 |-> ColumnCount(rows, i)],
     sum |-> [i \in 1..8 |-> SumSeq(Column(rows, i))],
     V   |-> [i \in 1..8 |-> ColumnV(rows, i)],
     nan |-> MatrixHasTag(rows, "null"),
     X   |-> <<>>]

\* NearestNeighbors.fit on the scaled matrix: the points are the rows of X
\* transformed by the statistics that scaled them
NNFitted(rows, stats) ==
    [stats EXCEPT !.X = [k \in 1..Len(rows) |-> [i \in 1..8 |-> rows[k][i].v]]]

SameTransform(a, b) == a.cnt = b.cnt /\ a.sum = b.sum /\ a.V = b.V

\* squared scale of feature i, times cnt^2: V, or cnt^2 when the column is constant
ScaleW(stats, i) == IF stats.V[i] > 0 THEN stats.V[i] ELSE stats.cnt[i] * stats.cnt[i]

ScaleWs(stats) == [i \in 1..8 |-> ScaleW(stats, i)]

\* squared Euclidean distance between the scaled candidate and scaled row x,
\* times the common factor LCM(W)*cnt^2
Dist2(Ws, L, user_array, x) ==
    SumSeq([i \in 1..8 |->
        (user_array[i].v - x[i]) * (user_array[i].v - x[i]) * (L \div Ws[i])])

\* the search returning a farthest point
ArgMax(stats, X, user_array) ==
    LET Ws == ScaleWs(stats)
        L  == LCMSeq(Ws)
        D  == [k \in 1..Len(X) |-> Dist2(Ws, L, user_array, X[k])]
    IN  {k \in 1..Len(X) : \A j \in 1..Len(X) : D[k] >= D[j]}

ArgMin(stats, X, user_array) ==
    LET Ws == ScaleWs(stats)
        L  == LCMSeq(Ws)
        D  == [k \in 1..Len(X) |-> Dist2(Ws, L, user_array, X[k])]
    IN  {k \in 1..Len(X) : \A j \in 1..Len(X) : D[k] <= D[j]}

SetMin(S) == CHOOSE x \in S : \A y \in S : x <= y

SetMax(S) == CHOOSE x \in S : \A y \in S : x >= y

\* NearestNeighbors.kneighbors, k = 1: the indices it can return.  Among
\* points at the same minimal distance the library fixes no order; the build
\* resolves it one way (tb).  When the candidate was scaled by a transform
\* other than the one that scaled the index, any index may be nearest.
kneighbors(nn, sc, user_array, tb) ==
    IF SameTransform(nn, sc)
    THEN IF tb = "lowest" THEN {SetMin(ArgMin(sc, nn.X, user_array))}
         ELSE {SetMax(ArgMin(sc, nn.X, user_array))}
    ELSE 1..Len(nn.X)


FeatIdx(f) ==
    [bpm |-> 1, beat_strength |-> 2, onset_rate |-> 3, energy |-> 4, danceability |-> 5,
     spectral_rolloff |-> 6, spectral_flatness |-> 7, dynamic_range |-> 8][f]

ZeroRoot == Root(0, 1)

\* the entry with the weight left out of weighted_z
ZEntryUnweighted(user_val, ref_val, n, V, weight) ==
    [user_value |-> user_val,
     ref_value  |-> ref_val,
     z_score    |-> IF V > 0 THEN Root(n * (user_val - ref_val), V) ELSE ZeroRoot,
     weighted_z |-> IF V > 0 THEN Root(n * (user_val - ref_val), V) ELSE ZeroRoot,
     weight     |-> weight]

\* one entry of the weighted-z table; n, V describe std = sqrt(V)/n, weight in halves
\* (PlaylistGatekeeper._calculate_weighted_z_scores, loop body)
ZEntry(user_val, ref_val, n, V, weight) ==
    [user_value |-> user_val,
     ref_value  |-> ref_val,
     z_score    |-> IF V > 0 THEN Root(n * (user_val - ref_val), V) ELSE ZeroRoot,
     weighted_z |-> IF V > 0 THEN Root(n * (user_val - ref_val) * weight, 4 * V) ELSE ZeroRoot,
     weight     |-> weight]

\* stds = np.std(self._features_to_matrix(self.playlist_features), axis=0)
calculate_weighted_z_scores(rows, user_features, ref_features) ==
    [f \in Golden8 |->
        ZEntry(user_features[f].v, ref_features[f].v,
               Len(rows), ColumnV(rows, FeatIdx(f)), FEATURE_WEIGHTS[f])]

\* the direction taken from the magnitude abs(weighted_z)
DirectionOfMagnitude(wz) == IF Abs(wz.num) < 0 THEN "below" ELSE "above"

Direction(wz) == IF wz.num < 0 THEN "below" ELSE "above"

Alert(f, wz, level) ==
    [feature |-> f, level |-> level, direction |-> Direction(wz),
     magnitude |-> Root(Abs(wz.num), wz.rad)]

\* the rhythm test with >= in place of >
RhythmAlertInclusive(f, wzs) ==
    IF ~RootAbsGt(wzs[f].weighted_z, 2 * CRITICAL_THRESHOLD, 2)
       /\ wzs[f].weighted_z.num * wzs[f].weighted_z.num
              # CRITICAL_THRESHOLD * CRITICAL_THRESHOLD * wzs[f].weighted_z.rad
    THEN <<>>
    ELSE <<Alert(f, wzs[f].weighted_z, "CRITICAL")>>

\* the two rhythm features: CRITICAL when |weighted_z| > CRITICAL_THRESHOLD
RhythmAlert(f, wzs) ==
    IF RootAbsGt(wzs[f].weighted_z, 2 * CRITICAL_THRESHOLD, 2)
    THEN <<Alert(f, wzs[f].weighted_z, "CRITICAL")>>
    ELSE <<>>

\* the warning test applied to the rhythm features as well
OtherAlertAnyFeature(f, wzs) ==
    IF RootAbsGt(wzs[f].weighted_z, WarningThresholdHalves, 2)
       /\ ~(f \in {"beat_strength", "onset_rate"}
             /\ RootAbsGt(wzs[f].weighted_z, 2 * CRITICAL_THRESHOLD, 2))
    THEN <<Alert(f, wzs[f].weighted_z, "WARNING")>>
    ELSE <<>>

\* every other feature: WARNING when |weighted_z| > 1.5
OtherAlert(f, wzs) ==
    IF f \notin {"beat_strength", "onset_rate"}
       /\ RootAbsGt(wzs[f].weighted_z, WarningThresholdHalves, 2)
    THEN <<Alert(f, wzs[f].weighted_z, "WARNING")>>
    ELSE <<>>

RECURSIVE OtherAlerts(_, _)
OtherAlerts(wzs, i) ==
    IF i > 8 THEN <<>> ELSE OtherAlert(golden_8_order[i], wzs) \o OtherAlerts(wzs, i + 1)

\* (PlaylistGatekeeper._identify_critical_alerts)
identify_critical_alerts(wzs) ==
    RhythmAlert("beat_strength", wzs) \o RhythmAlert("onset_rate", wzs) \o OtherAlerts(wzs, 1)

Report(user_features, nearest_ref, wzs) ==
    [kind |-> "report",
     user_features |-> user_features,
     nearest_reference |-> nearest_ref,
     weighted_z_scores |-> wzs,
     critical_alerts |-> identify_critical_alerts(wzs)]

\* check_track from "nearest_ref = self.playlist_features[nearest_idx]" on
CheckWithIndex(pf, user_features, idx) ==
    LET m == features_to_matrix(pf.list)
    IN  IF idx > Len(pf.list) THEN FailedError                    \* IndexError
        ELSE IF ~m.ok THEN FailedError                            \* KeyError
        ELSE IF MatrixHasTag(m.rows, "str") \/ MatrixHasTag(m.rows, "null")
             THEN FailedError                                     \* np.std raises
        ELSE Report(user_features, pf.list[idx],
                    calculate_weighted_z_scores(m.rows, user_features, pf.list[idx]))

NotFitted(sc, nn) == sc.kind = "None" \/ nn.kind = "None"

\* check_track without its except clause: the exception leaves the call
check_track_raising(sc, nn, pf, tb, user_features) ==
    LET ua == feature_dict_to_array(user_features)
    IN  IF NotFitted(sc, nn) THEN {NotFittedError}
        ELSE IF ~ua.ok \/ sc.kind = "unfitted" \/ HasTag(ua.arr, "str")
                \/ nn.kind = "unfitted" \/ HasTag(ua.arr, "null")
             THEN {[kind |-> "raised", error |-> "Exception"]}
        ELSE {CheckWithIndex(pf, user_features, idx) : idx \in kneighbors(nn, sc, ua.arr, tb)}

\* (PlaylistGatekeeper.check_track) the set of results the call can return
check_track(sc, nn, pf, tb, user_features) ==
    LET ua == feature_dict_to_array(user_features)
    IN  IF NotFitted(sc, nn) THEN {NotFittedError}
        ELSE IF ~ua.ok THEN {FailedError}                         \* KeyError
        ELSE IF sc.kind = "unfitted" \/ HasTag(ua.arr, "str")
             THEN {FailedError}                                   \* scaler.transform raises
        ELSE IF nn.kind = "unfitted" \/ HasTag(ua.arr, "null")
             THEN {FailedError}                                   \* kneighbors raises
        ELSE {CheckWithIndex(pf, user_features, idx) : idx \in kneighbors(nn, sc, ua.arr, tb)}

FitResult(sc, nn, pf, ret) ==
    [scaler |-> sc, nn_model |-> nn, playlist_features |-> pf, ret |-> ret]

\* the guard accepting a single reference vector
TooFewOffByOne(arg) == arg.none \/ Len(arg.list) < 1

\* "not playlist_features or len(playlist_features) < 2"
TooFew(arg) == arg.none \/ Len(arg.list) < 2

\* fit_playlist after the length guard: the assignments made before the
\* statement that raises stay in place
FitBody(arg, sc, nn, pf) ==
    LET m == features_to_matrix(arg.list)
    IN  IF ~m.ok
        THEN FitResult(sc, nn, arg, FALSE)                        \* KeyError in _features_to_matrix
        ELSE IF MatrixHasTag(m.rows, "str")
        THEN FitResult(UnfittedObj, nn, arg, FALSE)               \* fit_transform raises
        ELSE IF MatrixHasTag(m.rows, "null")
        THEN FitResult(ScalerStats(m.rows), UnfittedObj, arg, FALSE)  \* nn_model.fit raises on NaN
        ELSE FitResult(ScalerStats(m.rows), NNFitted(m.rows, ScalerStats(m.rows)), arg, TRUE)

\* fit_playlist storing the list ahead of its length guard
fit_playlist_storing_first(arg, sc, nn, pf) ==
    IF TooFew(arg) THEN FitResult(sc, nn, arg, FALSE) ELSE FitBody(arg, sc, nn, pf)

\* (PlaylistGatekeeper.fit_playlist)
fit_playlist(arg, sc, nn, pf) ==
    IF TooFew(arg) THEN FitResult(sc, nn, pf, FALSE) ELSE FitBody(arg, sc, nn, pf)

\* ------------------------------------------------------------- comparator
MaxValue == 5

\* the keys of the compared dicts: two vocabulary features and the categorical key
CmpKeys == {"bpm", "energy", "key"}

Str(v) == [t |-> "str", v |-> v]

\* values a track supplies for a numeric feature
TrackValues == {Absent, StrVal, NullVal} \cup {Num(v) : v \in 0..MaxValue}

TrackKeyValues == {Absent, Str(1), Str(2)}

Tracks ==
    {[bpm |-> b, energy |-> e, key |-> k] :
        b \in TrackValues, e \in TrackValues, k \in TrackKeyValues}

NoEntry == [present |-> FALSE, mean |-> NullVal, std |-> NullVal]

Entry(mean, std) == [present |-> TRUE, mean |-> mean, std |-> std]

\* ProfileStat entries: mean 1 with std 0, 1, 2, a negative std, and entries
\* holding a string or None where a number is expected
ProfileEntries ==
    {NoEntry, Entry(Num(1), Num(0)), Entry(Num(1), Num(1)), Entry(Num(1), Num(2)),
     Entry(Num(1), Num(0 - 1)),
     Entry(Num(1), NullVal), Entry(StrVal, Num(1)), Entry(NullVal, Num(1))}

ProfileKeyEntries == {NoEntry, Entry(Str(1), NullVal)}

Profiles ==
    {[bpm |-> b, energy |-> e, key |-> k] :
        b \in ProfileEntries, e \in ProfileEntries, k \in ProfileKeyEntries}

\* Comparator.__init__: tolerance levels in standard deviations, in halves
tolerance == [perfect |-> 1, good |-> 2, warning |-> 3, critical |-> 4]

\* keys and display names of param_metadata, in its order
param_metadata ==
    << <<"bpm", "BPM">>, <<"energy", "Energy">>, <<"loudness", "Loudness">>,
       <<"spectral_centroid", "Brightness">>, <<"rms", "RMS Level">>,
       <<"spectral_rolloff", "High-Freq Content">>, <<"spectral_flatness", "Spectral Flatness">>,
       <<"zero_crossing_rate", "Zero Crossing Rate">>, <<"spectral_contrast", "Spectral Contrast">>,
       <<"low_energy", "Low Energy">>, <<"mid_energy", "Mid Energy">>,
       <<"high_energy", "High Energy">>, <<"sub_bass_presence", "Sub-Bass">>,
       <<"danceability", "Danceability">>, <<"beat_strength", "Beat Strength">>,
       <<"valence", "Valence (Mood)">>, <<"stereo_width", "Stereo Width">>,
       <<"key_confidence", "Key Confidence">>, <<"dynamic_range", "Dynamic Range">>,
       <<"loudness_range", "Loudness Range">>, <<"true_peak", "True Peak">>,
       <<"crest_factor", "Crest Factor">>, <<"transient_energy", "Transient Energy">>,
       <<"harmonic_to_noise_ratio", "Harmonic/Noise Ratio">>,
       <<"harmonic_complexity", "Harmonic Complexity">>, <<"melodic_range", "Melodic Range">>,
       <<"rhythmic_density", "Rhythmic Density">>, <<"arrangement_density", "Arrangement Density">>,
       <<"repetition_score", "Repetition Score">>, <<"frequency_occupancy", "Frequency Occupancy">>,
       <<"timbral_diversity", "Timbral Diversity">>,
       <<"vocal_instrumental_ratio", "Vocal/Instrumental">>, <<"energy_curve", "Energy Curve">>,
       <<"call_response_presence", "Call-Response">> >>

InTrack(track, k) == k \in DOMAIN track /\ track[k].t # "absent"

InProfile(profile, k) == k \in DOMAIN profile /\ profile[k].present

\* the keys of track_features that reach the distance computation of
\* calculate_match_score
Reached(profile, track) ==
    {k \in DOMAIN track :
        /\ InTrack(track, k)
        /\ InProfile(profile, k)
        /\ k # "filename"
        /\ track[k].t \notin {"str", "null"}
        /\ profile[k].mean.t \notin {"str", "null"}}

\* "if target_std > 0" on a std that is no number raises TypeError, outside the try
ScoreRaises(profile, track) == \E k \in Reached(profile, track) : profile[k].std.t # "num"

\* the keys whose score is appended
Scored(profile, track) == {k \in Reached(profile, track) : profile[k].std.v > 0}

\* max(0, 100 - distance * 33.3) * 10 * std,  distance = |value - mean| / std
FeatureScoreUnclamped(value, mean, std) == 1000 * std - 333 * Abs(value - mean)

\* a score that grows with the distance
FeatureScoreRising(value, mean, std) == Min(1000 * std, 333 * Abs(value - mean))

FeatureScore(value, mean, std) == Max(0, 1000 * std - 333 * Abs(value - mean))

RECURSIVE LCMSet(_)
LCMSet(S) == IF S = {} THEN 1 ELSE LET x == CHOOSE y \in S : TRUE IN LCM(x, LCMSet(S \ {x}))

\* sum of f[x] over x in S
RECURSIVE SumSet(_, _)
SumSet(S, f) ==
    IF S = {} THEN 0 ELSE LET x == CHOOSE y \in S : TRUE IN f[x] + SumSet(S \ {x}, f)

\* round(num / den) to the nearest integer, halves to even (den > 0, num >= 0)
RoundHalfEven(num, den) ==
    LET q == num \div den
        r == num % den
    IN  IF 2 * r < den THEN q
        ELSE IF 2 * r > den THEN q + 1
        ELSE IF q % 2 = 0 THEN q ELSE q + 1

\* float(round(np.mean(scores), 1)) if scores else 0.0, in tenths
MeanScore(profile, track, S) ==
    IF S = {} THEN 0
    ELSE LET L == LCMSet({profile[k].std.v : k \in S})
             Term == [k \in S |->
                         FeatureScore(track[k].v, profile[k].mean.v, profile[k].std.v)
                             * (L \div profile[k].std.v)]
         IN  RoundHalfEven(SumSet(S, Term), L * Cardinality(S))

\* (Comparator.calculate_match_score), in tenths of a percent
calculate_match_score(profile, track) == MeanScore(profile, track, Scored(profile, track))

\* the status bands with their lower limits excluded
get_score_status_exclusive(score) ==
    IF score > 800 THEN "perfect"
    ELSE IF score > 600 THEN "good"
    ELSE IF score > 400 THEN "warning"
    ELSE "critical"

\* (Comparator.get_score_status)
get_score_status(score) ==
    IF score >= 800 THEN "perfect"
    ELSE IF score >= 600 THEN "good"
    ELSE IF score >= 400 THEN "warning"
    ELSE "critical"

Item(status, message) == [status |-> status, message |-> message]

\* the bands with their upper limits excluded
BandExclusive(value, mean, std) ==
    IF 2 * Abs(value - mean) < tolerance.perfect * std THEN Item("perfect", "Idealne dopasowanie")
    ELSE IF 2 * Abs(value - mean) < tolerance.good * std THEN Item("good", "Dobre dopasowanie")
    ELSE IF 2 * Abs(value - mean) < tolerance.warning * std
         THEN Item("warning", IF value > mean THEN "Nieco wyzsza" ELSE "Nieco nizsza")
    ELSE Item("critical", IF value > mean THEN "znacznie wyzsza" ELSE "znacznie nizsza")

\* the sigma band of |value - mean| / std
Band(value, mean, std) ==
    IF 2 * Abs(value - mean) <= tolerance.perfect * std THEN Item("perfect", "Idealne dopasowanie")
    ELSE IF 2 * Abs(value - mean) <= tolerance.good * std THEN Item("good", "Dobre dopasowanie")
    ELSE IF 2 * Abs(value - mean) <= tolerance.warning * std
         THEN Item("warning", IF value > mean THEN "Nieco wyzsza" ELSE "Nieco nizsza")
    ELSE Item("critical", IF value > mean THEN "znacznie wyzsza" ELSE "znacznie nizsza")

\* (Comparator.compare_feature)
compare_feature(profile, track, feature_key) ==
    IF ~InTrack(track, feature_key) \/ ~InProfile(profile, feature_key)
    THEN Item("good", "brak danych")
    ELSE IF track[feature_key].t = "str" \/ profile[feature_key].mean.t = "str"
    THEN Item("good", "value")
    ELSE IF track[feature_key].t = "null" \/ profile[feature_key].mean.t = "null"
    THEN Item("good", "brak danych")
    ELSE IF profile[feature_key].std.t # "num"
    THEN Item("good", "blad porownania")                          \* TypeError caught
    ELSE IF profile[feature_key].std.v > 0
    THEN Band(track[feature_key].v, profile[feature_key].mean.v, profile[feature_key].std.v)
    ELSE Item("perfect", "Idealne dopasowanie")                   \* std_distance = 0

\* (Comparator.compare_key) key is the track's key, a string
compare_key(profile, key) ==
    IF ~InProfile(profile, "key") THEN Item("good", "brak danych playlisty")
    ELSE IF key = profile["key"].mean THEN Item("perfect", "Idealna")
    ELSE Item("good", "Inna niz najczestsza")

\* -------------------------------------------- the specialised comparators
\* keys read by compare_bpm, compare_energy, compare_loudness,
\* compare_brightness and compare_rms
SpecialKeys == {"bpm", "energy", "loudness", "spectral_centroid", "rms"}

\* a profile entry that also says whether it holds 'min' and 'max'
StatEntry(mean, std, range) == [present |-> TRUE, mean |-> mean, std |-> std, range |-> range]

NoStatEntry == [present |-> FALSE, mean |-> NullVal, std |-> NullVal, range |-> FALSE]

\* an exception leaving the call
Raised(error) == Item("raised", error)

\* (Comparator.compare_bpm) everything up to std_distance is inside the try
compare_bpm(profile, bpm) ==
    IF ~InProfile(profile, "bpm") THEN Item("good", "nie mozna porownac")          \* KeyError caught
    ELSE IF ~profile["bpm"].range THEN Item("good", "nie mozna porownac")        \* KeyError caught
    ELSE IF profile["bpm"].mean.t # "num" \/ profile["bpm"].std.t # "num"
    THEN Item("good", "nie mozna porownac")                                      \* TypeError caught
    ELSE IF profile["bpm"].std.v <= 0
    THEN Item("perfect", "Idealne")                             \* std_distance = 0
    ELSE IF 2 * Abs(bpm - profile["bpm"].mean.v) <= tolerance.perfect * profile["bpm"].std.v
    THEN Item("perfect", "Idealne")
    ELSE IF 2 * Abs(bpm - profile["bpm"].mean.v) <= tolerance.good * profile["bpm"].std.v
    THEN Item("good", "Dobre dopasowanie")
    ELSE IF 2 * Abs(bpm - profile["bpm"].mean.v) <= tolerance.warning * profile["bpm"].std.v
    THEN Item("warning", IF bpm > profile["bpm"].mean.v THEN "Zwolnij" ELSE "Przyspiesz")
    ELSE Item("critical", IF bpm > profile["bpm"].mean.v THEN "Za szybko" ELSE "Za wolno")

\* (Comparator.compare_energy) no try block: KeyError and TypeError leave the call
compare_energy(profile, energy) ==
    IF ~InProfile(profile, "energy") THEN Raised("KeyError")
    ELSE IF profile["energy"].mean.t # "num" \/ profile["energy"].std.t # "num"
    THEN Raised("TypeError")
    ELSE IF profile["energy"].std.v <= 0
    THEN Item("perfect", "Idealna")                             \* std_distance = 0
    ELSE IF 2 * Abs(energy - profile["energy"].mean.v) <= tolerance.perfect * profile["energy"].std.v
    THEN Item("perfect", "Idealna")
    ELSE IF 2 * Abs(energy - profile["energy"].mean.v) <= tolerance.good * profile["energy"].std.v
    THEN Item("good", "OK")
    ELSE IF 2 * Abs(energy - profile["energy"].mean.v) <= tolerance.warning * profile["energy"].std.v
    THEN Item("warning", IF energy > profile["energy"].mean.v THEN "Za wysoka" ELSE "Za niska")
    ELSE Item("critical", IF energy > profile["energy"].mean.v THEN "Zmniejsz intensywnosc" ELSE "Zwieksz intensywnosc")

\* (Comparator.compare_loudness)
compare_loudness(profile, loudness) ==
    IF ~InProfile(profile, "loudness") THEN Raised("KeyError")
    ELSE IF profile["loudness"].mean.t # "num" \/ profile["loudness"].std.t # "num"
    THEN Raised("TypeError")
    ELSE IF profile["loudness"].std.v <= 0
    THEN Item("perfect", "Idealna")                             \* std_distance = 0
    ELSE IF 2 * Abs(loudness - profile["loudness"].mean.v) <= tolerance.perfect * profile["loudness"].std.v
    THEN Item("perfect", "Idealna")
    ELSE IF 2 * Abs(loudness - profile["loudness"].mean.v) <= tolerance.good * profile["loudness"].std.v
    THEN Item("good", "OK")
    ELSE IF 2 * Abs(loudness - profile["loudness"].mean.v) <= tolerance.warning * profile["loudness"].std.v
    THEN Item("warning", IF loudness > profile["loudness"].mean.v THEN "Za glosno" ELSE "Za cicho")
    ELSE Item("critical", IF loudness > profile["loudness"].mean.v THEN "Zmniejsz glosnosc" ELSE "Zwieksz glosnosc")

\* (Comparator.compare_brightness) reads the entry of spectral_centroid
compare_brightness(profile, spectral_centroid) ==
    IF ~InProfile(profile, "spectral_centroid") THEN Raised("KeyError")
    ELSE IF profile["spectral_centroid"].mean.t # "num" \/ profile["spectral_centroid"].std.t # "num"
    THEN Raised("TypeError")
    ELSE IF profile["spectral_centroid"].std.v <= 0
    THEN Item("perfect", "Idealna")                             \* std_distance = 0
    ELSE IF 2 * Abs(spectral_centroid - profile["spectral_centroid"].mean.v) <= tolerance.perfect * profile["spectral_centroid"].std.v
    THEN Item("perfect", "Idealna")
    ELSE IF 2 * Abs(spectral_centroid - profile["spectral_centroid"].mean.v) <= tolerance.good * profile["spectral_centroid"].std.v
    THEN Item("good", "OK")
    ELSE IF 2 * Abs(spectral_centroid - profile["spectral_centroid"].mean.v) <= tolerance.warning * profile["spectral_centroid"].std.v
    THEN Item("warning", IF spectral_centroid > profile["spectral_centroid"].mean.v THEN "Za jasno" ELSE "Za ciemno")
    ELSE Item("critical", IF spectral_centroid > profile["spectral_centroid"].mean.v THEN "Mocno obniz high-shelf" ELSE "Mocno podnies high-shelf")

\* compare_rms with its warning band reaching the critical tolerance
compare_rms_wide(profile, rms) ==
    IF ~InProfile(profile, "rms") THEN Raised("KeyError")
    ELSE IF profile["rms"].mean.t # "num" \/ profile["rms"].std.t # "num"
    THEN Raised("TypeError")
    ELSE IF profile["rms"].std.v <= 0
    THEN Item("perfect", "Idealny")                             \* std_distance = 0
    ELSE IF 2 * Abs(rms - profile["rms"].mean.v) <= tolerance.perfect * profile["rms"].std.v
    THEN Item("perfect", "Idealny")
    ELSE IF 2 * Abs(rms - profile["rms"].mean.v) <= tolerance.good * profile["rms"].std.v
    THEN Item("good", "OK")
    ELSE IF 2 * Abs(rms - profile["rms"].mean.v) <= tolerance.critical * profile["rms"].std.v
    THEN Item("warning", IF rms > profile["rms"].mean.v THEN "Zmniejsz kompresje" ELSE "Zwieksz kompresje")
    ELSE Item("critical", IF rms > profile["rms"].mean.v THEN "Przekompresowane" ELSE "Niedokompresowane")

\* (Comparator.compare_rms)
compare_rms(profile, rms) ==
    IF ~InProfile(profile, "rms") THEN Raised("KeyError")
    ELSE IF profile["rms"].mean.t # "num" \/ profile["rms"].std.t # "num"
    THEN Raised("TypeError")
    ELSE IF profile["rms"].std.v <= 0
    THEN Item("perfect", "Idealny")                             \* std_distance = 0
    ELSE IF 2 * Abs(rms - profile["rms"].mean.v) <= tolerance.perfect * profile["rms"].std.v
    THEN Item("perfect", "Idealny")
    ELSE IF 2 * Abs(rms - profile["rms"].mean.v) <= tolerance.good * profile["rms"].std.v
    THEN Item("good", "OK")
    ELSE IF 2 * Abs(rms - profile["rms"].mean.v) <= tolerance.warning * profile["rms"].std.v
    THEN Item("warning", IF rms > profile["rms"].mean.v THEN "Zmniejsz kompresje" ELSE "Zwieksz kompresje")
    ELSE Item("critical", IF rms > profile["rms"].mean.v THEN "Przekompresowane" ELSE "Niedokompresowane")

OverallItem(score) ==
    [status |-> get_score_status(score), message |-> "Overall match",
     score |-> score, parameter |-> "Overall Score"]

FeatureItem(profile, track, meta) ==
    [status |-> compare_feature(profile, track, meta[1]).status,
     message |-> compare_feature(profile, track, meta[1]).message,
     parameter |-> meta[2]]

\* the loop leaving out a feature whose value is no number
RECURSIVE FeatureItemsNumericOnly(_, _, _)
FeatureItemsNumericOnly(profile, track, i) ==
    IF i > Len(param_metadata) THEN <<>>
    ELSE (IF InTrack(track, param_metadata[i][1]) /\ InProfile(profile, param_metadata[i][1])
             /\ track[param_metadata[i][1]].t = "num"
          THEN <<FeatureItem(profile, track, param_metadata[i])>>
          ELSE <<>>)
         \o FeatureItemsNumericOnly(profile, track, i + 1)

RECURSIVE FeatureItems(_, _, _)
FeatureItems(profile, track, i) ==
    IF i > Len(param_metadata) THEN <<>>
    ELSE (IF InTrack(track, param_metadata[i][1]) /\ InProfile(profile, param_metadata[i][1])
          THEN <<FeatureItem(profile, track, param_metadata[i])>>
          ELSE <<>>)
         \o FeatureItems(profile, track, i + 1)

KeyItems(track) ==
    IF InTrack(track, "key")
    THEN <<[status |-> "good", message |-> "Key", parameter |-> "Key"]>>
    ELSE <<>>

\* (Comparator.compare_track) the returned list, or the exception escaping
\* from calculate_match_score
compare_track(profile, track) ==
    IF ScoreRaises(profile, track)
    THEN [raised |-> TRUE, list |-> <<>>]
    ELSE [raised |-> FALSE,
          list |-> <<OverallItem(calculate_match_score(profile, track))>>
                      \o FeatureItems(profile, track, 1) \o KeyItems(track)]

NoList == [raised |-> FALSE, list |-> <<>>]

EmptyDict == [k \in CmpKeys |-> Absent]

EmptyProfile == [k \in CmpKeys |-> NoEntry]

NoArg == [key |-> "", score |-> 0]

CmpIdle ==
    /\ target_profile = EmptyProfile
    /\ track_features = EmptyDict
    /\ recommendations = NoList
    /\ cmp_pc = "idle"
    /\ cmp_arg = NoArg
    /\ cmp_ret = Item("", "")

\* --------------------------------------------------------- profile builder
MaxTracks == 3

\* a string that spells the number v
NumStr(v) == [t |-> "numstr", v |-> v]

\* what a playlist track holds under a numeric feature key
PlaylistValues == {Absent, NullVal, StrVal, NumStr(3), Num(0), Num(2)}

PlaylistTracks ==
    {[bpm |-> b, energy |-> e, key |-> k] :
        b \in PlaylistValues, e \in {Absent, Num(1)}, k \in TrackKeyValues}

\* the lists of n playlist tracks
TrackLists(n) == [1..n -> PlaylistTracks]

\* all_params: the keys, other than 'filename' and 'key', under which some
\* track holds an int or a float
all_params(tracks) ==
    {k \in CmpKeys \ {"filename", "key"} :
        \E i \in 1..Len(tracks) : tracks[i][k].t = "num"}

\* "param in track and track[param] is not None", and float(track[param])
\* does not raise: float of a number or of a string that spells one
Collected(x) == x.t \in {"num", "numstr"}

\* a track that lacks the key counted as 0.0
RECURSIVE ValuesMissingAsZero(_, _, _)
ValuesMissingAsZero(tracks, param, i) ==
    IF i > Len(tracks) THEN <<>>
    ELSE (IF Collected(tracks[i][param]) THEN <<tracks[i][param].v>>
          ELSE IF tracks[i][param].t = "absent" THEN <<0>>
          ELSE <<>>)
         \o ValuesMissingAsZero(tracks, param, i + 1)

\* values: float(track[param]) of the tracks from position i on
RECURSIVE Values(_, _, _)
Values(tracks, param, i) ==
    IF i > Len(tracks) THEN <<>>
    ELSE (IF Collected(tracks[i][param]) THEN <<tracks[i][param].v>> ELSE <<>>)
         \o Values(tracks, param, i + 1)

NoStat == [present |-> FALSE, mean |-> [num |-> 0, den |-> 1],
           std |-> [rad |-> 0, den |-> 1], min |-> 0, max |-> 0]

\* np.mean, np.std, np.min, np.max of values: mean = num / den,
\* std = sqrt(rad) / den (the population standard deviation)
Stat(values) ==
    [present |-> TRUE,
     mean |-> [num |-> SumSeq(values), den |-> Len(values)],
     std |-> [rad |-> Len(values) * SumSeq([i \in 1..Len(values) |-> values[i] * values[i]])
                        - SumSeq(values) * SumSeq(values),
              den |-> Len(values)],
     min |-> SetMin({values[i] : i \in 1..Len(values)}),
     max |-> SetMax({values[i] : i \in 1..Len(values)})]

\* (PlaylistComparator._create_profile)
create_profile(tracks) ==
    IF tracks = <<>> THEN [k \in CmpKeys |-> NoStat]
    ELSE [k \in CmpKeys |->
            IF k \in all_params(tracks) /\ Values(tracks, k, 1) # <<>>
            THEN Stat(Values(tracks, k, 1))
            ELSE NoStat]

PlIdle ==
    /\ playlist_tracks = <<>>
    /\ pl_profile = [k \in CmpKeys |-> NoStat]
    /\ pl_pc = "idle"

\* ---------------------------------------------------------------- actions
GateInit ==
    /\ scaler = NoneObj
    /\ nn_model = NoneObj
    /\ playlist_features = NoneList
    /\ tiebreak \in {"lowest", "highest"}
    /\ op = "init"
    /\ fit_arg = NoneList
    /\ fit_ret = FALSE
    /\ check_arg = TrackA
    /\ check_ret = NoResult
    /\ fit_pc = "idle"
    /\ fitted_refs = <<>>
    /\ failed_fit = FALSE

Init == GateInit /\ CmpIdle /\ PlIdle

\* the call fit_playlist(arg) and its record
FitCall(arg) ==
    /\ fit_pc = "idle"
    /\ LET o == fit_playlist(arg, scaler, nn_model, playlist_features)
       IN  /\ scaler' = o.scaler
           /\ nn_model' = o.nn_model
           /\ playlist_features' = o.playlist_features
           /\ fit_ret' = o.ret
    /\ fit_arg' = arg
    /\ fitted_refs' = IF fit_ret' THEN arg.list ELSE fitted_refs
    /\ op' = "fit"
    /\ UNCHANGED <<tiebreak, fit_pc>>
    /\ UNCHANGED <<cmp_vars, pl_vars>>

FitPlaylist ==
    \E arg \in FitArgs :
        /\ FitCall(arg)
        /\ check_arg' = TrackA
        /\ check_ret' = NoResult
        /\ UNCHANGED failed_fit

CheckTrack ==
    \E c \in Candidates \cup BadCandidates :
        /\ check_ret' \in check_track(scaler, nn_model, playlist_features, tiebreak, c)
        /\ check_arg' = c
        /\ op' = "check"
        /\ fit_arg' = IF fit_pc = "idle" THEN NoneList ELSE fit_arg
        /\ fit_ret' = FALSE
        /\ UNCHANGED <<scaler, nn_model, playlist_features, tiebreak, fit_pc, fitted_refs>>
        /\ UNCHANGED <<cmp_vars, pl_vars, failed_fit>>

vars == <<scaler, nn_model, playlist_features, tiebreak,
          op, fit_arg, fit_ret, check_arg, check_ret, fit_pc, fitted_refs, failed_fit,
          target_profile, track_features, recommendations, cmp_pc, cmp_arg, cmp_ret,
          playlist_tracks, pl_profile, pl_pc>>

Next == FitPlaylist \/ CheckTrack

Spec == Init /\ [][Next]_vars


\* ------------------------------------------------------------ fit failures
GoodCandidates == Candidates

\* the results check_track can return for candidate c in the current state
CheckNow(c) == check_track(scaler, nn_model, playlist_features, tiebreak, c)

\* the gatekeeper is exactly as the last successful fit left it
CleanlyFitted ==
    /\ scaler.kind = "fitted"
    /\ nn_model.kind = "fitted"
    /\ fitted_refs # <<>>
    /\ playlist_features.list = fitted_refs

MalformedList(l) ==
    \E k \in 1..Len(l) : \E f \in Golden8 : l[k][f].t # "num"

\* C1: on a previously fitted gatekeeper, a fit_playlist call with 2 or more
\* reference vectors that fails on a malformed vector leaves scaler, nn_model
\* and playlist_features as they were, and every check_track returns
\* afterwards what it returned before.
C1_FailedFitHasNoEffect ==
    [][(CleanlyFitted /\ op' = "fit" /\ ~fit_arg'.none /\ Len(fit_arg'.list) >= 2
            /\ MalformedList(fit_arg'.list) /\ ~fit_ret')
        => /\ scaler' = scaler
           /\ nn_model' = nn_model
           /\ playlist_features' = playlist_features
           /\ \A c \in GoodCandidates :
                 check_track(scaler', nn_model', playlist_features', tiebreak', c) = CheckNow(c)
      ]_vars

\* C2: fit_playlist with None, an empty list or a single reference vector
\* returns False and changes none of scaler, nn_model, playlist_features;
\* every check_track returns afterwards what it returned before, and on a
\* gatekeeper left by a successful fit that is a report whose nearest
\* reference is one of the earlier reference vectors.
C2_ShortFitHasNoEffect ==
    [][(op' = "fit" /\ (fit_arg'.none \/ Len(fit_arg'.list) <= 1))
        => /\ fit_ret' = FALSE
           /\ scaler' = scaler
           /\ nn_model' = nn_model
           /\ playlist_features' = playlist_features
           /\ \A c \in GoodCandidates :
                 /\ check_track(scaler', nn_model', playlist_features', tiebreak', c) = CheckNow(c)
                 /\ CleanlyFitted =>
                       \A r \in check_track(scaler', nn_model', playlist_features', tiebreak', c) :
                           /\ r.kind = "report"
                           /\ \E k \in 1..Len(fitted_refs) : r.nearest_reference = fitted_refs[k]
      ]_vars

\* a one-vector fit has just been refused on a fitted gatekeeper
C2_Witness ==
    /\ op = "fit"
    /\ ~fit_arg.none
    /\ Len(fit_arg.list) = 1
    /\ ~fit_ret
    /\ CleanlyFitted

\* C4: while no fit_playlist has succeeded, check_track returns the
\* NotFitted error result for every candidate.
C4_CheckBeforeFitIsNotFitted ==
    (op = "check" /\ fitted_refs = <<>>) => check_ret = NotFittedError


\* ------------------------------------------- fit_playlist running beside checks
\* fit_playlist takes no lock: each of its assignments to self is visible to
\* a check_track running on another thread as soon as it is made.  The
\* concurrent fits are well-formed lists of 2 or more vectors.
ConcFitStore ==
    \E l \in GoodLists :
        /\ fit_pc = "idle"
        /\ playlist_features' = [none |-> FALSE, list |-> l]       \* self.playlist_features = ...
        /\ fit_arg' = [none |-> FALSE, list |-> l]
        /\ fit_pc' = "new_scaler"
        /\ op' = "fit_step"
        /\ fit_ret' = FALSE
        /\ check_arg' = TrackA
        /\ check_ret' = NoResult
        /\ UNCHANGED <<scaler, nn_model, tiebreak, fitted_refs>>
        /\ UNCHANGED <<cmp_vars, pl_vars, failed_fit>>

ConcFitNewScaler ==
    /\ fit_pc = "new_scaler"
    /\ scaler' = UnfittedObj                                       \* self.scaler = StandardScaler()
    /\ fit_pc' = "fit_scaler"
    /\ op' = "fit_step"
    /\ check_arg' = TrackA
    /\ check_ret' = NoResult
    /\ UNCHANGED <<nn_model, playlist_features, tiebreak, fit_arg, fit_ret, fitted_refs>>
    /\ UNCHANGED <<cmp_vars, pl_vars, failed_fit>>

ConcFitScaler ==
    /\ fit_pc = "fit_scaler"
    /\ scaler' = ScalerStats(features_to_matrix(fit_arg.list).rows)  \* self.scaler.fit_transform(...)
    /\ fit_pc' = "new_index"
    /\ op' = "fit_step"
    /\ check_arg' = TrackA
    /\ check_ret' = NoResult
    /\ UNCHANGED <<nn_model, playlist_features, tiebreak, fit_arg, fit_ret, fitted_refs>>
    /\ UNCHANGED <<cmp_vars, pl_vars, failed_fit>>

ConcFitNewIndex ==
    /\ fit_pc = "new_index"
    /\ nn_model' = UnfittedObj                                     \* self.nn_model = NearestNeighbors(...)
    /\ fit_pc' = "fit_index"
    /\ op' = "fit_step"
    /\ check_arg' = TrackA
    /\ check_ret' = NoResult
    /\ UNCHANGED <<scaler, playlist_features, tiebreak, fit_arg, fit_ret, fitted_refs>>
    /\ UNCHANGED <<cmp_vars, pl_vars, failed_fit>>

ConcFitIndex ==
    /\ fit_pc = "fit_index"
    /\ nn_model' = NNFitted(features_to_matrix(fit_arg.list).rows,
                            ScalerStats(features_to_matrix(fit_arg.list).rows))
    /\ fit_pc' = "idle"                                            \* return True
    /\ fit_ret' = TRUE
    /\ fitted_refs' = fit_arg.list
    /\ op' = "fit"
    /\ check_arg' = TrackA
    /\ check_ret' = NoResult
    /\ UNCHANGED <<scaler, playlist_features, tiebreak, fit_arg>>
    /\ UNCHANGED <<cmp_vars, pl_vars, failed_fit>>

NextConc ==
    \/ ConcFitStore
    \/ ConcFitNewScaler
    \/ ConcFitScaler
    \/ ConcFitNewIndex
    \/ ConcFitIndex
    \/ CheckTrack

SpecConc == Init /\ [][NextConc]_vars

\* the results check_track returns on a gatekeeper fitted, completely, on refs
CheckOn(refs, tb, c) ==
    check_track(FitBody([none |-> FALSE, list |-> refs], NoneObj, NoneObj, NoneList).scaler,
                FitBody([none |-> FALSE, list |-> refs], NoneObj, NoneObj, NoneList).nn_model,
                [none |-> FALSE, list |-> refs], tb, c)

\* C3: on an already fitted gatekeeper, a check_track that runs while a
\* fit_playlist is in progress returns what it returns on the complete old
\* fitted state or on the complete new one.
C3_CheckSeesOldOrNew ==
    [][(op' = "check" /\ fitted_refs # <<>> /\ fit_pc # "idle")
        => check_ret' \in CheckOn(fitted_refs, tiebreak, check_arg')
                          \cup CheckOn(fit_arg.list, tiebreak, check_arg')
      ]_vars


\* ------------------------------------------------------ checks that fail
\* C19: on a gatekeeper left by a successful fit, check_track with a
\* candidate that lacks a Golden-8 key or holds a string or a null returns
\* an error result, not a report and not an exception, leaves scaler,
\* nn_model and playlist_features unchanged, and every well-formed
\* candidate checked next gets a report.
C19_FaultyCheckIsError ==
    [][(CleanlyFitted /\ op' = "check" /\ check_arg' \in BadCandidates)
        => /\ check_ret'.kind = "error"
           /\ scaler' = scaler
           /\ nn_model' = nn_model
           /\ playlist_features' = playlist_features
           /\ \A c \in GoodCandidates :
                 \A r \in check_track(scaler', nn_model', playlist_features', tiebreak', c) :
                     r.kind = "report"
      ]_vars

\* a candidate without the key bpm has just been checked on a fitted
\* gatekeeper
C19_Witness ==
    /\ op = "check"
    /\ check_arg["bpm"].t = "absent"
    /\ check_ret.kind = "error"
    /\ CleanlyFitted

\* ------------------------------------------------------- repeated checks
\* fit_playlist between two checks: the record of the last check is kept
\* until a fit succeeds
FitPlaylistBetween ==
    \E arg \in FitArgs :
        /\ FitCall(arg)
        /\ check_arg' = IF fit_ret' THEN TrackA ELSE check_arg
        /\ check_ret' = IF fit_ret' THEN NoResult ELSE check_ret
        /\ UNCHANGED failed_fit

NextRepeat == FitPlaylistBetween \/ CheckTrack

SpecRepeat == Init /\ [][NextRepeat]_vars

\* fit_playlist with the history of failed calls
FitPlaylistAfter ==
    \E arg \in FitArgs :
        /\ FitCall(arg)
        /\ check_arg' = TrackA
        /\ check_ret' = NoResult
        /\ failed_fit' = (~fit_ret' /\ fitted_refs # <<>>)

NextHistory == FitPlaylistAfter \/ CheckTrack

SpecHistory == Init /\ [][NextHistory]_vars

\* C20: check_track leaves scaler, nn_model and playlist_features
\* unchanged, and a check_track that follows a check_track of the same
\* candidate with no successful fit between them returns the same nearest
\* reference, weighted-z table and alert list.
C20_CheckReadOnly ==
    [][op' = "check"
        => /\ scaler' = scaler
           /\ nn_model' = nn_model
           /\ playlist_features' = playlist_features
           /\ (check_ret.kind = "report" /\ check_arg' = check_arg)
                 => /\ check_ret'.kind = "report"
                    /\ check_ret'.nearest_reference = check_ret.nearest_reference
                    /\ check_ret'.weighted_z_scores = check_ret.weighted_z_scores
                    /\ check_ret'.critical_alerts = check_ret.critical_alerts
      ]_vars


\* --------------------------------------------------------- the check report
IsReport == op = "check" /\ check_ret.kind = "report"

\* n^2 * population variance of feature f over the reference list refs
RefV(refs, f) ==
    Len(refs) * SumSeq([k \in 1..Len(refs) |-> refs[k][f].v * refs[k][f].v])
        - SumSeq([k \in 1..Len(refs) |-> refs[k][f].v]) * SumSeq([k \in 1..Len(refs) |-> refs[k][f].v])

\* divisor of the squared difference of feature f after standardisation,
\* times n^2 (a constant feature is left unscaled)
RefW(refs, f) == IF RefV(refs, f) > 0 THEN RefV(refs, f) ELSE Len(refs) * Len(refs)

RefL(refs) == LCMSeq([i \in 1..8 |-> RefW(refs, golden_8_order[i])])

\* squared standardized Euclidean distance from c to refs[k], times RefL/n^2
StdDist2(refs, c, k) ==
    SumSeq([i \in 1..8 |->
        (c[golden_8_order[i]].v - refs[k][golden_8_order[i]].v)
          * (c[golden_8_order[i]].v - refs[k][golden_8_order[i]].v)
          * (RefL(refs) \div RefW(refs, golden_8_order[i]))])

Nearest(refs, c) ==
    {k \in 1..Len(refs) : \A j \in 1..Len(refs) : StdDist2(refs, c, k) <= StdDist2(refs, c, j)}

SpecWeight(f) ==
    CASE f = "beat_strength" -> 6
      [] f \in {"onset_rate", "danceability"} -> 4
      [] f \in {"bpm", "energy"} -> 3
      [] f \in {"spectral_rolloff", "spectral_flatness"} -> 2
      [] f = "dynamic_range" -> 1

\* num/sqrt(rad) equals a/sqrt(b)
RootIs(r, a, b) ==
    /\ r.rad > 0
    /\ (r.num > 0) = (a > 0)
    /\ (r.num < 0) = (a < 0)
    /\ r.num * r.num * b = a * a * r.rad

\* C6: every entry of the weighted-z table has user_value = the candidate's
\* value, ref_value = the nearest reference's value, the configured weight,
\* z_score = (user_value - ref_value) / population std over the fitted
\* list, weighted_z = z_score * weight, and both are 0 when that std is 0.
C6_WeightedZTable ==
    IsReport =>
        \A f \in Golden8 :
            LET e == check_ret.weighted_z_scores[f]
                n == Len(fitted_refs)
                V == RefV(fitted_refs, f)
            IN  /\ e.user_value = check_arg[f].v
                /\ e.ref_value = check_ret.nearest_reference[f].v
                /\ e.weight = SpecWeight(f)
                /\ V = 0 => (e.z_score.num = 0 /\ e.weighted_z.num = 0)
                /\ V > 0 => /\ RootIs(e.z_score, n * (e.user_value - e.ref_value), V)
                            /\ RootIs(e.weighted_z, e.z_score.num * SpecWeight(f), 4 * e.z_score.rad)

\* a report with a zero-std feature on which candidate and reference differ,
\* and a feature with a non-zero z-score
C6_Witness ==
    /\ IsReport
    /\ \E f \in Golden8 :
          /\ RefV(fitted_refs, f) = 0
          /\ check_arg[f].v # check_ret.nearest_reference[f].v
    /\ \E f \in Golden8 : check_ret.weighted_z_scores[f].z_score.num # 0

AlertCount(f, level) ==
    Cardinality({i \in 1..Len(check_ret.critical_alerts) :
                    /\ check_ret.critical_alerts[i].feature = f
                    /\ check_ret.critical_alerts[i].level = level})

\* 4 * weighted_z^2 compared with (2t)^2, t given in halves
WzAbove(f, halves) ==
    4 * check_ret.weighted_z_scores[f].weighted_z.num * check_ret.weighted_z_scores[f].weighted_z.num
        > halves * halves * check_ret.weighted_z_scores[f].weighted_z.rad

WzEquals(f, halves) ==
    4 * check_ret.weighted_z_scores[f].weighted_z.num * check_ret.weighted_z_scores[f].weighted_z.num
        = halves * halves * check_ret.weighted_z_scores[f].weighted_z.rad

\* C7: a feature has a CRITICAL alert exactly when it is beat_strength or
\* onset_rate and its |weighted_z| is strictly greater than 2.0.
C7_CriticalRule ==
    IsReport =>
        \A f \in Golden8 :
            /\ AlertCount(f, "CRITICAL") <= 1
            /\ (AlertCount(f, "CRITICAL") = 1)
                 <=> (f \in {"beat_strength", "onset_rate"} /\ WzAbove(f, 4))

\* a report with |weighted_z| of exactly 2.0 on one rhythm feature, above 2.0
\* on the other, and above 2.0 on a feature that is not a rhythm feature
C7_Witness ==
    /\ IsReport
    /\ \E f \in {"beat_strength", "onset_rate"} : WzEquals(f, 4)
    /\ \E f \in {"beat_strength", "onset_rate"} : WzAbove(f, 4)
    /\ \E f \in Golden8 \ {"beat_strength", "onset_rate"} : WzAbove(f, 4)

\* C8 as stated: every feature with |weighted_z| > 1.5 and no CRITICAL alert
\* has exactly one WARNING alert, a feature with |weighted_z| <= 1.5 has no
\* alert, and no feature has both a CRITICAL and a WARNING alert.
C8_WarningEveryFeature ==
    IsReport =>
        \A f \in Golden8 :
            /\ (WzAbove(f, 3) /\ AlertCount(f, "CRITICAL") = 0) => AlertCount(f, "WARNING") = 1
            /\ ~WzAbove(f, 3) => (AlertCount(f, "CRITICAL") = 0 /\ AlertCount(f, "WARNING") = 0)
            /\ ~(AlertCount(f, "CRITICAL") > 0 /\ AlertCount(f, "WARNING") > 0)

\* C8 amended: a feature other than beat_strength and onset_rate has exactly
\* one WARNING alert when its |weighted_z| > 1.5 and none otherwise;
\* beat_strength and onset_rate never have a WARNING alert; a feature with
\* |weighted_z| <= 1.5 has no alert; no feature has both kinds of alert.
C8_WarningOtherFeatures ==
    IsReport =>
        \A f \in Golden8 :
            /\ f \notin {"beat_strength", "onset_rate"} =>
                  AlertCount(f, "WARNING") = (IF WzAbove(f, 3) THEN 1 ELSE 0)
            /\ f \in {"beat_strength", "onset_rate"} => AlertCount(f, "WARNING") = 0
            /\ ~WzAbove(f, 3) => (AlertCount(f, "CRITICAL") = 0 /\ AlertCount(f, "WARNING") = 0)
            /\ ~(AlertCount(f, "CRITICAL") > 0 /\ AlertCount(f, "WARNING") > 0)

\* a report where a rhythm feature lies in (1.5, 2.0] without any alert and
\* another feature carries a WARNING
C8_Witness ==
    /\ IsReport
    /\ \E f \in {"beat_strength", "onset_rate"} :
          /\ WzAbove(f, 3)
          /\ ~WzAbove(f, 4)
          /\ AlertCount(f, "CRITICAL") = 0
          /\ AlertCount(f, "WARNING") = 0
    /\ \E f \in Golden8 : AlertCount(f, "WARNING") = 1


\* ------------------------------------------------- comparing one track
GateIdle ==
    /\ scaler = NoneObj
    /\ nn_model = NoneObj
    /\ playlist_features = NoneList
    /\ tiebreak = "lowest"
    /\ op = "init"
    /\ fit_arg = NoneList
    /\ fit_ret = FALSE
    /\ check_arg = TrackA
    /\ check_ret = NoResult
    /\ fit_pc = "idle"
    /\ fitted_refs = <<>>
    /\ failed_fit = FALSE

\* Comparator(target_profile), then one call compare_track(track_features)
InitCmp ==
    /\ GateIdle
    /\ target_profile \in Profiles
    /\ track_features \in Tracks
    /\ recommendations = NoList
    /\ cmp_pc = "start"
    /\ cmp_arg = NoArg
    /\ cmp_ret = Item("", "")
    /\ PlIdle

gate_all == <<scaler, nn_model, playlist_features, tiebreak,
              op, fit_arg, fit_ret, check_arg, check_ret, fit_pc, fitted_refs, failed_fit>>

CompareTrack ==
    /\ cmp_pc = "start"
    /\ recommendations' = compare_track(target_profile, track_features)
    /\ cmp_pc' = "done"
    /\ UNCHANGED <<target_profile, track_features, cmp_arg, cmp_ret>>
    /\ UNCHANGED <<gate_all, pl_vars>>

\* compare_feature(track_features, feature_key, name, unit) called directly
CompareFeature ==
    \E k \in CmpKeys \ {"key"} :
        /\ cmp_pc = "start"
        /\ cmp_arg' = [key |-> k, score |-> 0]
        /\ cmp_ret' = compare_feature(target_profile, track_features, k)
        /\ cmp_pc' = "feature"
        /\ UNCHANGED <<target_profile, track_features, recommendations>>
        /\ UNCHANGED <<gate_all, pl_vars>>

\* compare_key(track_features['key']) called directly
CompareKey ==
    /\ cmp_pc = "start"
    /\ InTrack(track_features, "key")
    /\ cmp_arg' = [key |-> "key", score |-> 0]
    /\ cmp_ret' = compare_key(target_profile, track_features["key"])
    /\ cmp_pc' = "key"
    /\ UNCHANGED <<target_profile, track_features, recommendations>>
    /\ UNCHANGED <<gate_all, pl_vars>>

\* scores (in tenths) around the limits of the status bands
ScoreArgs == {0, 399, 400, 401, 599, 600, 601, 799, 800, 801, 1000}

\* get_score_status(score) called directly
GetScoreStatus ==
    \E s \in ScoreArgs :
        /\ cmp_pc = "start"
        /\ cmp_arg' = [key |-> "", score |-> s]
        /\ cmp_ret' = Item(get_score_status(s), "")
        /\ cmp_pc' = "status"
        /\ UNCHANGED <<target_profile, track_features, recommendations>>
        /\ UNCHANGED <<gate_all, pl_vars>>

NextCmp == CompareTrack \/ CompareFeature \/ CompareKey \/ GetScoreStatus

SpecCmp == InitCmp /\ [][NextCmp]_vars

\* every std of the profile is a number (a ProfileStat)
NumericStds == \A k \in CmpKeys : target_profile[k].present /\ target_profile[k].mean.t = "num"
                                      => target_profile[k].std.t = "num"

Comparable ==
    {k \in CmpKeys \ {"key"} :
        /\ track_features[k].t = "num"
        /\ target_profile[k].present
        /\ target_profile[k].mean.t = "num"}

\* common multiple of the positive stds of the comparable features
ComparableL ==
    LCMSet({IF target_profile[k].std.v > 0 THEN target_profile[k].std.v ELSE 1 : k \in Comparable})

\* 10 * ComparableL * clamp(100 - 33.3 * distance, 0, 100), distance 0 when std <= 0
SpecFeatureScore ==
    [k \in Comparable |->
        IF target_profile[k].std.v <= 0 THEN 1000 * ComparableL
        ELSE (ComparableL \div target_profile[k].std.v)
               * Min(1000 * target_profile[k].std.v,
                     Max(0, 1000 * target_profile[k].std.v
                              - 333 * Abs(track_features[k].v - target_profile[k].mean.v)))]

\* C10: the overall score is the mean, rounded to 1 decimal, of the
\* per-feature scores over every comparable feature, a feature with std 0
\* contributing 100; it is 0.0 only when no feature was comparable.
C10_OverallIsMeanOfAll ==
    (cmp_pc = "done" /\ NumericStds) =>
        /\ Comparable # {} =>
              recommendations.list[1].score
                  = RoundHalfEven(SumSet(Comparable, SpecFeatureScore),
                                  ComparableL * Cardinality(Comparable))
        /\ Comparable = {} => recommendations.list[1].score = 0


\* ------------------------------------------------- building the profile
\* PlaylistComparator(playlist_tracks): "playlist_tracks or []", no
\* existing_profile
InitProfile ==
    /\ GateIdle
    /\ CmpIdle
    /\ \E n \in 0..MaxTracks : playlist_tracks \in TrackLists(n)
    /\ pl_profile = [k \in CmpKeys |-> NoStat]
    /\ pl_pc = "start"

\* self.profile = self._create_profile()
CreateProfile ==
    /\ pl_pc = "start"
    /\ pl_profile' = create_profile(playlist_tracks)
    /\ pl_pc' = "built"
    /\ UNCHANGED playlist_tracks
    /\ UNCHANGED <<gate_all, cmp_vars>>

NextProfile == CreateProfile

SpecProfile == InitProfile /\ [][NextProfile]_vars

NumericKeys == CmpKeys \ {"key"}

\* the vectors that supply a numeric value for feature k
Suppliers(k) == {i \in 1..Len(playlist_tracks) : playlist_tracks[i][k].t = "num"}

\* every vector holds a number under k or lacks k
FeatureVectorsFor(k) ==
    \A i \in 1..Len(playlist_tracks) : playlist_tracks[i][k].t \in {"num", "absent"}

SupSum(k) == SumSet(Suppliers(k), [i \in Suppliers(k) |-> playlist_tracks[i][k].v])

SupSquares(k) ==
    SumSet(Suppliers(k), [i \in Suppliers(k) |-> playlist_tracks[i][k].v * playlist_tracks[i][k].v])

\* the entry of k is the mean, population std, min and max over Suppliers(k)
StatsOverSuppliers(k) ==
    LET n == Cardinality(Suppliers(k))
        e == pl_profile[k]
    IN  /\ e.mean.num * n = SupSum(k) * e.mean.den
        /\ e.std.rad * n * n = (n * SupSquares(k) - SupSum(k) * SupSum(k)) * e.std.den * e.std.den
        /\ e.min = SetMin({playlist_tracks[i][k].v : i \in Suppliers(k)})
        /\ e.max = SetMax({playlist_tracks[i][k].v : i \in Suppliers(k)})

C17_MalformedSkipped ==
    pl_pc = "built" =>
        \A k \in NumericKeys : Suppliers(k) # {} => StatsOverSuppliers(k)

\* the most frequent values of 'key' over the collection
KeyCount(v) ==
    Cardinality({i \in 1..Len(playlist_tracks) : playlist_tracks[i]["key"] = v})

KeyModes ==
    {v \in TrackKeyValues \ {Absent} :
        /\ KeyCount(v) > 0
        /\ \A w \in TrackKeyValues \ {Absent} : KeyCount(w) <= KeyCount(v)}

\* C18: when some vector has the key 'key', the built profile has an entry
\* 'key' that holds the most frequent value of that key.
C18_KeyMode ==
    (pl_pc = "built" /\ KeyModes # {}) =>
        /\ pl_profile["key"].present
        /\ pl_profile["key"].mean \in KeyModes


\* ------------------------------------------------- the per-feature verdict
\* value, mean and std of feature k are all numbers
NumericCase(k) ==
    /\ track_features[k].t = "num"
    /\ target_profile[k].present
    /\ target_profile[k].mean.t = "num"
    /\ target_profile[k].std.t = "num"

\* the band of distance = |value - mean| / std, distance 0 when std <= 0
SigmaBand(value, mean, std) ==
    IF std <= 0 THEN "perfect"
    ELSE IF 2 * Abs(value - mean) <= std THEN "perfect"
    ELSE IF Abs(value - mean) <= std THEN "good"
    ELSE IF 2 * Abs(value - mean) <= 3 * std THEN "warning"
    ELSE "critical"

DisplayName(k) == IF k = "bpm" THEN "BPM" ELSE "Energy"

\* the positions of the items of compare_track's list that carry this name
ItemsNamed(name) ==
    {i \in 1..Len(recommendations.list) : recommendations.list[i].parameter = name}

\* C11: for a numeric value, a numeric mean and a numeric std the status
\* given by compare_feature is the sigma band of |value - mean| / std
\* (0 when std <= 0): <= 0.5 perfect, (0.5, 1.0] good, (1.0, 1.5] warning,
\* > 1.5 critical; the item compare_track lists for the feature carries it.
C11_SigmaBanding ==
    /\ (cmp_pc = "feature" /\ NumericCase(cmp_arg.key)) =>
           cmp_ret.status = SigmaBand(track_features[cmp_arg.key].v,
                                      target_profile[cmp_arg.key].mean.v,
                                      target_profile[cmp_arg.key].std.v)
    /\ (cmp_pc = "done" /\ ~recommendations.raised) =>
           \A k \in CmpKeys \ {"key"} :
               NumericCase(k) =>
                   \A i \in ItemsNamed(DisplayName(k)) :
                       recommendations.list[i].status
                           = SigmaBand(track_features[k].v, target_profile[k].mean.v,
                                       target_profile[k].std.v)

\* compare_feature has judged a value exactly 1.5 standard deviations from
\* the mean as warning
C11_Witness ==
    /\ cmp_pc = "feature"
    /\ NumericCase(cmp_arg.key)
    /\ target_profile[cmp_arg.key].std.v = 2
    /\ Abs(track_features[cmp_arg.key].v - target_profile[cmp_arg.key].mean.v) = 3
    /\ cmp_ret.status = "warning"

\* C12: when the vector has the key 'key', compare_track's list has one Key
\* item; its status is perfect when the vector's key equals the profile's
\* most frequent key and good when it differs, never warning or critical.
C12_KeyItemStatus ==
    (cmp_pc = "done" /\ ~recommendations.raised /\ InTrack(track_features, "key")) =>
        /\ Cardinality(ItemsNamed("Key")) = 1
        /\ \A i \in ItemsNamed("Key") :
              recommendations.list[i].status
                  = (IF InProfile(target_profile, "key")
                        /\ track_features["key"] = target_profile["key"].mean
                     THEN "perfect" ELSE "good")

\* C13: compare_track and compare_feature never raise; a feature that is
\* present on both sides but has a string, a null or another non-number as
\* value, mean or std gets an item with status good, a feature missing on a
\* side gets status good from compare_feature, and the Overall Score item
\* is produced.
C13_NeverRaises ==
    /\ cmp_pc = "done" =>
          /\ ~recommendations.raised
          /\ Len(recommendations.list) >= 1
          /\ recommendations.list[1].parameter = "Overall Score"
          /\ \A k \in CmpKeys \ {"key"} :
                (InTrack(track_features, k) /\ InProfile(target_profile, k) /\ ~NumericCase(k)) =>
                    /\ Cardinality(ItemsNamed(DisplayName(k))) = 1
                    /\ \A i \in ItemsNamed(DisplayName(k)) :
                          recommendations.list[i].status = "good"
    /\ (cmp_pc = "feature" /\ ~NumericCase(cmp_arg.key)) => cmp_ret.status = "good"

\* ------------------------------------------------------- the overall score
\* the overall score compare_track gives to another vector
ScoreOf(track) == compare_track(target_profile, track).list[1].score

\* the features whose normalized distance |value - mean| / std is defined
Distanced == {k \in Comparable : target_profile[k].std.t = "num" /\ target_profile[k].std.v > 0}

\* the values of feature k that lie further from the mean than the vector's
Further(k) ==
    {v \in 0..MaxValue :
        Abs(v - target_profile[k].mean.v) > Abs(track_features[k].v - target_profile[k].mean.v)}

\* C14: a vector that differs from the compared one only in the value of
\* one comparable feature, and lies further from the mean on it, never
\* gets a higher overall score.
C14_ScoreMonotone ==
    (cmp_pc = "done" /\ ~recommendations.raised) =>
        \A k \in Distanced : \A v \in Further(k) :
            ScoreOf([track_features EXCEPT ![k] = Num(v)]) <= recommendations.list[1].score

\* two features are comparable and moving one of them further from the
\* mean lowers the overall score
C14_Witness ==
    /\ cmp_pc = "done"
    /\ ~recommendations.raised
    /\ Cardinality(Distanced) = 2
    /\ \E k \in Distanced : \E v \in Further(k) :
          ScoreOf([track_features EXCEPT ![k] = Num(v)]) < recommendations.list[1].score

\* the status bands of a score, in tenths
StatusOfScore(score) ==
    IF score >= 800 THEN "perfect"
    ELSE IF score >= 600 THEN "good"
    ELSE IF score >= 400 THEN "warning"
    ELSE "critical"

\* C15: the status of the Overall Score item, and of get_score_status, is
\* perfect for score >= 80, good for 60 <= score < 80, warning for
\* 40 <= score < 60 and critical below 40; the score 0.0 of a comparison
\* with nothing comparable is critical.
C15_StatusByScore ==
    /\ (cmp_pc = "done" /\ ~recommendations.raised) =>
          /\ recommendations.list[1].status = StatusOfScore(recommendations.list[1].score)
          /\ Comparable = {} => recommendations.list[1].status = "critical"
    /\ cmp_pc = "status" => cmp_ret.status = StatusOfScore(cmp_arg.score)

\* get_score_status has judged the score 80.0 as perfect
C15_Witness ==
    /\ cmp_pc = "status"
    /\ cmp_arg.score = 800
    /\ cmp_ret.status = "perfect"


\* ------------------------------------------------- the report in full
\* feature k is on both sides but its value or the profile's mean is a
\* string or a null
NotComputable(k) ==
    /\ InTrack(track_features, k)
    /\ InProfile(target_profile, k)
    /\ \/ track_features[k].t \in {"str", "null"}
       \/ target_profile[k].mean.t \in {"str", "null"}

AlertsOf(f) ==
    {i \in 1..Len(check_ret.critical_alerts) : check_ret.critical_alerts[i].feature = f}

\* C22: an alert of a report says "below" exactly when the candidate's value
\* for its feature is less than the nearest reference's value and "above"
\* exactly when it is greater; a feature on which the two values are equal
\* has no alert.
C22_DirectionMatchesData ==
    IsReport =>
        \A f \in Golden8 :
            /\ \A i \in AlertsOf(f) :
                  /\ check_ret.critical_alerts[i].direction \in {"below", "above"}
                  /\ check_ret.critical_alerts[i].direction = "below"
                        <=> check_arg[f].v < check_ret.nearest_reference[f].v
                  /\ check_ret.critical_alerts[i].direction = "above"
                        <=> check_arg[f].v > check_ret.nearest_reference[f].v
            /\ check_arg[f].v = check_ret.nearest_reference[f].v => AlertsOf(f) = {}

\* a report with an alert below, an alert above, and a feature on which
\* candidate and reference agree
C22_Witness ==
    /\ IsReport
    /\ \E i \in 1..Len(check_ret.critical_alerts) : check_ret.critical_alerts[i].direction = "below"
    /\ \E i \in 1..Len(check_ret.critical_alerts) : check_ret.critical_alerts[i].direction = "above"
    /\ \E f \in Golden8 : check_arg[f].v = check_ret.nearest_reference[f].v


\* ------------------------------------------- the reference of a report
\* C23: after any sequence of fit_playlist and check_track calls, the
\* nearest_reference of a report is an element of the list passed to the
\* most recent successful fit_playlist, and the ref_value of each of the 8
\* weighted-z entries is that element's value for the feature.
C23_ReferenceOfLastFit ==
    IsReport =>
        \E k \in 1..Len(fitted_refs) :
            /\ check_ret.nearest_reference = fitted_refs[k]
            /\ DOMAIN check_ret.weighted_z_scores = Golden8
            /\ \A f \in Golden8 :
                  check_ret.weighted_z_scores[f].ref_value = fitted_refs[k][f].v

\* a report returned after a fit_playlist call that failed on a fitted
\* gatekeeper
C23_Witness ==
    /\ IsReport
    /\ failed_fit
    /\ Len(fitted_refs) >= 2


\* -------------------------------------- the specialised comparators, called
\* entries under one key: none, mean 1 with std 0, 1, 2 or negative, with and
\* without 'min' and 'max', and entries holding a string or None
SpecialEntries ==
    {NoStatEntry}
    \cup {StatEntry(Num(1), Num(sd), r) : sd \in {0 - 1, 0, 1, 2}, r \in BOOLEAN}
    \cup {StatEntry(Num(1), NullVal, TRUE), StatEntry(StrVal, Num(1), TRUE),
          StatEntry(NullVal, Num(1), TRUE)}

\* Comparator(target_profile) with an entry under one of the five keys, and
\* the value the comparators are called with
InitSpecial ==
    /\ GateIdle
    /\ PlIdle
    /\ \E k \in SpecialKeys : \E e \in SpecialEntries :
          target_profile = [j \in SpecialKeys |-> IF j = k THEN e ELSE NoStatEntry]
    /\ \E v \in 0..MaxValue : track_features = [j \in SpecialKeys |-> Num(v)]
    /\ recommendations = NoList
    /\ cmp_pc = "start"
    /\ cmp_arg = NoArg
    /\ cmp_ret = Item("", "")

\* compare_bpm(bpm) called directly
CompareBpm ==
    /\ cmp_pc = "start"
    /\ cmp_arg' = [key |-> "bpm", score |-> 0]
    /\ cmp_ret' = compare_bpm(target_profile, track_features["bpm"].v)
    /\ cmp_pc' = "special"
    /\ UNCHANGED <<target_profile, track_features, recommendations>>
    /\ UNCHANGED <<gate_all, pl_vars>>

\* compare_energy(energy) called directly
CompareEnergy ==
    /\ cmp_pc = "start"
    /\ cmp_arg' = [key |-> "energy", score |-> 0]
    /\ cmp_ret' = compare_energy(target_profile, track_features["energy"].v)
    /\ cmp_pc' = "special"
    /\ UNCHANGED <<target_profile, track_features, recommendations>>
    /\ UNCHANGED <<gate_all, pl_vars>>

\* compare_loudness(loudness) called directly
CompareLoudness ==
    /\ cmp_pc = "start"
    /\ cmp_arg' = [key |-> "loudness", score |-> 0]
    /\ cmp_ret' = compare_loudness(target_profile, track_features["loudness"].v)
    /\ cmp_pc' = "special"
    /\ UNCHANGED <<target_profile, track_features, recommendations>>
    /\ UNCHANGED <<gate_all, pl_vars>>

\* compare_brightness(spectral_centroid) called directly
CompareBrightness ==
    /\ cmp_pc = "start"
    /\ cmp_arg' = [key |-> "spectral_centroid", score |-> 0]
    /\ cmp_ret' = compare_brightness(target_profile, track_features["spectral_centroid"].v)
    /\ cmp_pc' = "special"
    /\ UNCHANGED <<target_profile, track_features, recommendations>>
    /\ UNCHANGED <<gate_all, pl_vars>>

\* compare_rms(rms) called directly
CompareRms ==
    /\ cmp_pc = "start"
    /\ cmp_arg' = [key |-> "rms", score |-> 0]
    /\ cmp_ret' = compare_rms(target_profile, track_features["rms"].v)
    /\ cmp_pc' = "special"
    /\ UNCHANGED <<target_profile, track_features, recommendations>>
    /\ UNCHANGED <<gate_all, pl_vars>>

NextSpecial ==
    \/ CompareBpm
    \/ CompareEnergy
    \/ CompareLoudness
    \/ CompareBrightness
    \/ CompareRms

SpecSpecial == InitSpecial /\ [][NextSpecial]_vars

\* the profile entry under k is a ProfileStat (mean, std, min, max) with
\* std >= 0 and the value is a number
StatCase(k) ==
    /\ track_features[k].t = "num"
    /\ target_profile[k].present
    /\ target_profile[k].range
    /\ target_profile[k].mean.t = "num"
    /\ target_profile[k].std.t = "num"
    /\ target_profile[k].std.v >= 0

AllNumericFeatures ==
    /\ ~InTrack(track_features, "key")
    /\ \A k \in NumericKeys : track_features[k].t \in {"num", "absent"}
    /\ \E k \in NumericKeys : InTrack(track_features, k) /\ InProfile(target_profile, k)

\* C25: for a vector whose keys are all vocabulary features with numeric
\* values, at least one of them in the profile, if every per-feature item of
\* compare_track's list has status perfect then the Overall Score item has
\* status perfect.
C25_PerfectItemsPerfectOverall ==
    (/\ cmp_pc = "done"
     /\ ~recommendations.raised
     /\ AllNumericFeatures
     /\ \A i \in 2..Len(recommendations.list) : recommendations.list[i].status = "perfect")
        => recommendations.list[1].status = "perfect"

====
